---- MODULE Spec2Model ----
(***************************************************************************)
(* The reminder scheduling engine of one-life-manager: SchedulerService    *)
(* (src/src/services/WebDashboardService.ts, lines 842-1172) together with *)
(* the Entry Source it polls (src/src/services/TimetableParser.ts) and the *)
(* transport it sends through (IWhatsAppService).                          *)
(*                                                                         *)
(* Time is counted in half minutes: an even instant 2*m is the exact start *)
(* of minute m (second 0, where cron tasks activate), the odd instant      *)
(* 2*m+1 is a moment inside minute m.  Every callback of the single        *)
(* threaded event loop is one action; an async function is cut at the      *)
(* awaits that really suspend (file read, transport call, initialize).     *)
(***************************************************************************)
EXTENDS Integers, Sequences, FiniteSets, Bags, TLC

\* ------------------------------------------------------------------ bounds
MinutesPerDay == 3      \* minutes in a model day (1440 in reality)
MaxStarts == 2          \* start() calls in one behaviour
MaxSweeps == 2          \* sweep ticks in flight at the same time
MaxCount == 2           \* the transport log counts up to here
MaxZoneOffset == 0      \* minutes the cron zone is ahead of the local zone
\* reminderConfig.minutesBefore, the lead time in minutes
MinutesBefore == 1
MaxTests == 1
MaxTail == 3
MaxHostZoneOffset == 1

\* ------------------------------------------------- constants of the program
PrefixLen == 20         \* activity.substring(0, 20)
SweepPeriod == 2        \* setInterval(..., 60000): one minute

DayTicks == 2 * MinutesPerDay
\* the two windows of time that are explored: the day from its first instant
\* to its last, and the night from the last slot of a day over midnight to the
\* first timers of the next day
DayEnd == DayTicks - 1
NightStart == DayTicks - 3
MaxTime == DayTicks + 2
Lead == 2 * MinutesBefore

VARIABLES
    now,                \* the wall clock, in half minutes
    zoneOffset,         \* cron zone minus local zone, in minutes
    isRunning,          \* SchedulerService.isRunning
    connected,          \* the transport's isConnected()
    scheduledReminders, \* Map<string, ScheduledReminder>: id -> the object stored under it
    detached,           \* ScheduledReminder objects the map no longer holds, but a cron
                        \* task or a pending sendReminder call still does (a bag)
    checkInterval,      \* SchedulerService.checkInterval: an interval handle or 0 (null)
    intervals,          \* the live setInterval handles: handle -> [phase, due]
    midnightTasks,      \* number of '0 0 * * *' cron tasks that exist
    midnightDue,        \* midnight activations not yet run
    startCalls,         \* start() calls made so far
    startsInInit,       \* start() calls awaiting whatsappService.initialize()
    loads,              \* loadTodaySchedule() calls awaiting the Entry Source, by caller
    sweeps,             \* sweep tick callbacks in flight (a bag)
    successes,          \* transport log: successful sends, by day and fingerprint
    rolledOn,           \* the day of the latest midnight load that went through, -1: none
    tests,              \* the entries of the testReminder() calls that await the transport
    bot,                \* ReminderChatBot: its configuration, environment and progress
    pair,               \* two entries and, once generated, their fingerprints
    messages            \* the texts formatReminderMessage has returned, with their entries

\* the variables of the engine and of the world around it
EngineVars == <<now, zoneOffset, isRunning, connected, scheduledReminders, detached,
                checkInterval, intervals, midnightTasks, midnightDue, startCalls,
                startsInInit, loads, sweeps, successes, rolledOn, tests,
                pair, messages>>

vars == <<now, zoneOffset, isRunning, connected, scheduledReminders, detached,
          checkInterval, intervals, midnightTasks, midnightDue, startCalls,
          startsInInit, loads, sweeps, successes, rolledOn, tests, bot, pair, messages>>

\* ------------------------------------------------------------- strings
\* A string is a sequence of one-character strings.
LowerOf == [c \in {"A", "B", "C", "M", "P"} |->
              CASE c = "A" -> "a" [] c = "B" -> "b" [] c = "C" -> "c"
                [] c = "M" -> "m" [] c = "P" -> "p"]

toLowerCase(s) == [i \in 1..Len(s) |-> IF s[i] \in DOMAIN LowerOf THEN LowerOf[s[i]] ELSE s[i]]

IsSpace(c) == c = " "

\* s.replace(/\s+/g, '')
stripSpaces(s) == SelectSeq(s, LAMBDA c : ~IsSpace(c))

\* a string that is returned whole
wholeString(s, n) == s

\* s.substring(0, n)
substring(s, n) == SubSeq(s, 1, IF Len(s) < n THEN Len(s) ELSE n)

generateReminderId(entry) ==
    LET timeSlotNormalized == toLowerCase(stripSpaces(entry.timeSlot))
        activityNormalized == toLowerCase(stripSpaces(substring(entry.activity, PrefixLen)))
    IN  timeSlotNormalized \o <<"-">> \o activityNormalized

\* ------------------------------------------------------------- time
Minute(t) == t \div 2
Day(t) == t \div DayTicks
MinuteOfDay(t) == Minute(t) % MinutesPerDay

\* ------------------------------------------------------ the Entry Source
\* The rows of the timetable file.  A time slot "<m> am" starts at minute m
\* of the day; rows 1 and 2 differ in spacing and letter case only.
Timetable ==
    << [timeSlot |-> <<"2", " ", "A", "M">>, activity |-> <<"a", "b">>],
       [timeSlot |-> <<"2", "a", "m">>,      activity |-> <<"A", " ", "b">>],
       [timeSlot |-> <<"1", " ", "A", "M">>, activity |-> <<"c">>] >>

DigitValue == [c \in {"0", "1", "2", "3", "4", "5"} |->
                 CASE c = "0" -> 0 [] c = "1" -> 1 [] c = "2" -> 2
                   [] c = "3" -> 3 [] c = "4" -> 4 [] c = "5" -> 5]

\* parseTimeSlot: the start time matched in the label, on today's date
parseTimeSlot(row, t) ==
    [timeSlot  |-> row.timeSlot,
     activity  |-> row.activity,
     startTime |-> Day(t) * DayTicks + 2 * DigitValue[Head(row.timeSlot)]]

\* getTodaySchedule: every row, resolved against today
getTodaySchedule(t) == [i \in 1..Len(Timetable) |-> parseTimeSlot(Timetable[i], t)]

\* a look-ahead query that leaves out the entries starting in the current minute
getUpcomingEntriesAfterNow(minutesAhead, t) ==
    SelectSeq(getTodaySchedule(t),
              LAMBDA e : /\ Minute(e.startTime) > Minute(t)
                         /\ Minute(e.startTime) <= Minute(t + 2 * minutesAhead))

\* getUpcomingEntries: isBetween(now, now + minutesAhead, 'minute', '[]')
getUpcomingEntries(minutesAhead, t) ==
    SelectSeq(getTodaySchedule(t),
              LAMBDA e : /\ Minute(e.startTime) >= Minute(t)
                         /\ Minute(e.startTime) <= Minute(t + 2 * minutesAhead))

Fingerprints == {generateReminderId(Timetable[i]) : i \in 1..Len(Timetable)}


\* ------------------------------------------------------ the registry
MaxIntervals == MaxStarts

\* cronExpression '' of a record made by the sweep
NoCron == [minute |-> -1, day |-> -1]

\* createCronExpression: minute/hour and day/month of the date, read in the local zone
createCronExpression(date) == [minute |-> MinuteOfDay(date), day |-> Day(date)]

\* node-cron: the expression is matched against the clock of the zone the task
\* was registered with ('Asia/Karachi'), at second 0 of a minute
CronMatches(expr, t, offset) ==
    /\ t % 2 = 0
    /\ MinuteOfDay(t + 2 * offset) = expr.minute
    /\ Day(t + 2 * offset) = expr.day

\* '0 0 * * *', no zone given: local midnight
MidnightMatches(t) == t % DayTicks = 0

Has(map, rid) == rid \in DOMAIN map

\* Map.set
MapSet(map, rid, obj) == [k \in DOMAIN map \cup {rid} |-> IF k = rid THEN obj ELSE map[k]]

\* An object matters after the map has let go of it while its cron task is
\* live or a sendReminder call that holds it awaits the transport.
Held(obj) == obj.task = "live" \/ obj.sending

Detach(bag, obj) == IF Held(obj) THEN bag (+) SetToBag({obj}) ELSE bag

\* what the map loses when rid is set anew
Displaced(st, rid) == IF Has(st.map, rid) THEN Detach(st.detached, st.map[rid]) ELSE st.detached

\* a scheduleReminder that also skips the entry whose fire instant is now
scheduleReminderAfterNow(entry, st, t, offset, onTime) ==
    LET reminderTime == entry.startTime - Lead
        reminderId == generateReminderId(entry)
        cronExpression == createCronExpression(reminderTime)
        scheduledReminder ==
            [id |-> reminderId, entry |-> entry, reminderTime |-> reminderTime,
             cronExpression |-> cronExpression, task |-> "live", sent |-> FALSE,
             due |-> onTime /\ CronMatches(cronExpression, t, offset), sending |-> FALSE,
             calls |-> 0]
    IN  IF reminderTime <= t
        THEN st
        ELSE [map      |-> MapSet(st.map, reminderId, scheduledReminder),
              detached |-> Displaced(st, reminderId)]

\* scheduleReminder (lines 942-975) on the state st = [map, detached] at time t.
\* Besides the fields of ScheduledReminder an object carries the state of its
\* cron task (task, due), whether a sendReminder call that holds it awaits
\* the transport (sending), and the number of transport calls made for its
\* fingerprint by its timer, or by a sweep tick while the map held it (calls).
\* onTime: whether a task created exactly at the instant its expression
\* matches is still activated for that instant (decided by node-cron).
scheduleReminder(entry, st, t, offset, onTime) ==
    LET reminderTime == entry.startTime - Lead
        reminderId == generateReminderId(entry)
        cronExpression == createCronExpression(reminderTime)
        scheduledReminder ==
            [id |-> reminderId, entry |-> entry, reminderTime |-> reminderTime,
             cronExpression |-> cronExpression, task |-> "live", sent |-> FALSE,
             due |-> onTime /\ CronMatches(cronExpression, t, offset), sending |-> FALSE,
             calls |-> 0]
    IN  IF reminderTime < t
        THEN st
        ELSE [map      |-> MapSet(st.map, reminderId, scheduledReminder),
              detached |-> Displaced(st, reminderId)]

\* reminder.task.stop()
stopTask(obj) == IF obj.task = "live" THEN [obj EXCEPT !.task = "stopped", !.due = FALSE] ELSE obj

RECURSIVE DetachAll(_, _, _)
DetachAll(bag, map, keys) ==
    IF keys = {}
    THEN bag
    ELSE LET k == CHOOSE x \in keys : TRUE
         IN  DetachAll(Detach(bag, stopTask(map[k])), map, keys \ {k})

\* a clear that leaves the map and the tasks as they are
clearNothing(st) == st

\* a clear that stops the tasks and keeps the records in the map
clearStopsOnly(st) ==
    [map      |-> [k \in DOMAIN st.map |-> stopTask(st.map[k])],
     detached |-> st.detached]

\* clearScheduledReminders (lines 1145-1152), also the first half of stop()
clearScheduledReminders(st) ==
    [map      |-> <<>>,
     detached |-> DetachAll(st.detached, st.map, DOMAIN st.map)]

RECURSIVE scheduleAll(_, _, _, _, _)
\* the for loop of loadTodaySchedule (lines 932-934)
scheduleAll(entries, st, t, offset, onTime) ==
    IF entries = <<>>
    THEN st
    ELSE scheduleAll(Tail(entries), scheduleReminder(Head(entries), st, t, offset, onTime),
                     t, offset, onTime)

\* a loadTodaySchedule that clears the registry before it asks the Entry Source
loadClearsFirst(st, t, offset, ok, onTime) ==
    IF ok
    THEN scheduleAll(getTodaySchedule(t), clearScheduledReminders(st), t, offset, onTime)
    ELSE clearScheduledReminders(st)

\* loadTodaySchedule (lines 923-940) once the Entry Source has answered;
\* ok = FALSE: getTodaySchedule rejected, the catch block only logs
loadTodaySchedule(st, t, offset, ok, onTime) ==
    IF ok
    THEN scheduleAll(getTodaySchedule(t), clearScheduledReminders(st), t, offset, onTime)
    ELSE st

Count(n) == IF n < MaxCount THEN n + 1 ELSE n

Days == 0..Day(MaxTime)

\* the transport log: one more successful send for the entry's fingerprint
\* on the day of instant t
Bump(log, entry, t) == [log EXCEPT ![Day(t)][generateReminderId(entry)] = Count(@)]

\* sendMessage: a transport that is not initialized throws (MockWhatsAppService,
\* lines 37-40); a connected one reports success or failure
Results(isConnected) == IF isConnected THEN {"success", "failure"} ELSE {"throw"}

\* ----------------------------------------------------- the chat bot
\* ConfigService: the limits of validateConfig
MinLeadMinutes == 0
MaxLeadMinutes == 120

RECURSIVE trimStart(_)
trimStart(s) == IF s # <<>> /\ IsSpace(Head(s)) THEN trimStart(Tail(s)) ELSE s

RECURSIVE trimEnd(_)
trimEnd(s) == IF s # <<>> /\ IsSpace(s[Len(s)]) THEN trimEnd(SubSeq(s, 1, Len(s) - 1)) ELSE s

\* s.trim()
trim(s) == trimEnd(trimStart(s))

\* '!s || s.trim() === ""'
Blank(s) == s = <<>> \/ trim(s) = <<>>

\* a configuration and environment with which ReminderChatBot.start() goes through
GoodSetup ==
    [minutesBefore |-> MinutesBefore, timetableFile |-> <<"t">>, phoneNumber |-> <<"1">>,
     isMock |-> TRUE, useWhatsAppWeb |-> FALSE, apiKey |-> <<>>,
     envPhone |-> <<"1">>, envFile |-> <<"t">>, envMongo |-> <<"m">>,
     fileExists |-> TRUE, testEnv |-> TRUE, message |-> <<>>]

\* the configurations and environments ReminderChatBot.start() is tried with
Setups ==
    [minutesBefore : {MinLeadMinutes - 1, MinutesBefore, MaxLeadMinutes + 1},
     timetableFile : {<<>>, <<" ">>, <<"t">>},
     phoneNumber : {<<>>, <<"1">>},
     isMock : BOOLEAN, useWhatsAppWeb : BOOLEAN, apiKey : {<<>>, <<"k">>},
     envPhone : {<<>>, <<"1">>}, envFile : {<<" ">>, <<"t">>}, envMongo : {<<>>, <<"m">>},
     fileExists : BOOLEAN, testEnv : BOOLEAN, message : {<<>>}]

\* validateConfig().valid: no check adds an error
validateConfig(setup) ==
    /\ ~Blank(setup.timetableFile)
    /\ ~(setup.minutesBefore < MinLeadMinutes \/ setup.minutesBefore > MaxLeadMinutes)
    /\ ~(~setup.isMock /\ ~setup.useWhatsAppWeb /\ setup.apiKey = <<>>)
    /\ ~Blank(setup.phoneNumber)

\* validateEnvironmentVariables().valid: no required variable is missing
validateEnvironmentVariables(setup) ==
    /\ ~Blank(setup.envPhone)
    /\ ~Blank(setup.envFile)
    /\ ~Blank(setup.envMongo)

\* validateTimetableFile(): fs.existsSync of the timetable path
validateTimetableFile(setup) == setup.fileExists

\* a ReminderChatBot after construction: start() not called, isRunning false
NewBot(setup) == [setup |-> setup, pc |-> "idle", isRunning |-> FALSE, error |-> "none"]

\* no fingerprint is asked for
NoRow == [timeSlot |-> <<>>, activity |-> <<>>]
NoPair == [a |-> NoRow, b |-> NoRow, ids |-> <<>>]

\* -------------------------------------------------------------- Init
InitZoned(t, offsets) ==
    /\ now = t
    /\ zoneOffset \in offsets
    /\ isRunning = FALSE
    /\ connected = FALSE
    /\ scheduledReminders = <<>>
    /\ detached = EmptyBag
    /\ checkInterval = 0
    /\ intervals = <<>>
    /\ midnightTasks = 0
    /\ midnightDue = 0
    /\ startCalls = 0
    /\ startsInInit = 0
    /\ loads = [start |-> 0, rollover |-> 0]
    /\ sweeps = EmptyBag
    /\ successes = [d \in Days |-> [f \in Fingerprints |-> 0]]
    /\ rolledOn = -1
    /\ tests = EmptyBag
    /\ messages = {}

InitEngine(t) == InitZoned(t, 0..MaxZoneOffset)

InitWith(t, b) ==
    /\ InitEngine(t)
    /\ bot = b
    /\ pair = NoPair

InitAt(t) == InitWith(t, NewBot(GoodSetup))

\* ------------------------------------------------------------ the clock
Activates(obj) == obj.task = "live" /\ obj.due

TimerDue ==
    \/ \E k \in DOMAIN scheduledReminders : Activates(scheduledReminders[k])
    \/ \E obj \in BagToSet(detached) : Activates(obj)

TickDue == \E h \in DOMAIN intervals : intervals[h].due

\* a call of the Entry Source is pending: it answers within the minute
Reading ==
    \/ loads.start > 0 \/ loads.rollover > 0
    \/ \E tick \in BagToSet(sweeps) : tick.pc = "fetch"

\* the cron task of obj notes that instant t matches its expression
noteTime(obj, t, offset) ==
    IF obj.task = "live" /\ CronMatches(obj.cronExpression, t, offset)
    THEN [obj EXCEPT !.due = TRUE]
    ELSE obj

RECURSIVE MapBag(_, _, _, _)
\* the bag with noteTime applied to each of its objects
MapBag(bag, objs, t, offset) ==
    IF objs = {}
    THEN EmptyBag
    ELSE LET o == CHOOSE x \in objs : TRUE
         IN  [x \in {noteTime(o, t, offset)} |-> CopiesIn(o, bag)]
             (+) MapBag(bag, objs \ {o}, t, offset)

\* Time passes; what the new instant makes due is noted.  Callbacks that are
\* due run before the clock moves on.
Advance ==
    /\ now < MaxTime
    /\ ~TimerDue /\ ~TickDue /\ midnightDue = 0
    /\ Reading => now % 2 = 0
    /\ now' = now + 1
    /\ scheduledReminders' = [k \in DOMAIN scheduledReminders |->
                                noteTime(scheduledReminders[k], now + 1, zoneOffset)]
    /\ detached' = MapBag(detached, BagToSet(detached), now + 1, zoneOffset)
    /\ intervals' = [h \in DOMAIN intervals |->
                       [intervals[h] EXCEPT !.due = ((now + 1) % SweepPeriod = intervals[h].phase)]]
    /\ midnightDue' = IF MidnightMatches(now + 1) THEN midnightTasks ELSE 0
    /\ UNCHANGED <<zoneOffset, isRunning, connected, checkInterval,
                   midnightTasks, startCalls, startsInInit, loads, sweeps, successes>>

    /\ UNCHANGED <<rolledOn, tests, bot, pair, messages>>
\* ------------------------------------------------------- start and stop
NewHandle == CHOOSE h \in 1..MaxIntervals : h \notin DOMAIN intervals

\* start() from scheduleDailyTimetableUpdate() on (lines 876-880): one more
\* midnight task, then loadTodaySchedule() waits for the Entry Source
BeginLoad ==
    /\ midnightTasks' = midnightTasks + 1
    /\ loads' = [loads EXCEPT !.start = @ + 1]

\* a start() without the test of isRunning
startGoesOnAlways(running) == FALSE

\* start(): 'if (this.isRunning) return' (lines 864-867)
startReturnsAtOnce(running) == running

\* a stop() without the test of isRunning
stopGoesOnAlways(running) == FALSE

\* stop(): 'if (!this.isRunning) return' (lines 890-893)
stopReturnsAtOnce(running) == ~running

\* a start() that never initializes the transport
neverInitializes(isConnected) == FALSE

\* start(): 'if (!this.whatsappService.isConnected())' (line 872)
mustInitialize(isConnected) == ~isConnected

\* start() is called (lines 863-874); the caller awaits each start() before
\* it calls again
StartCall ==
    /\ startCalls < MaxStarts
    /\ startsInInit = 0 /\ loads.start = 0
    /\ ~startReturnsAtOnce(isRunning)
    /\ startCalls' = startCalls + 1
    /\ IF mustInitialize(connected)
       THEN startsInInit' = startsInInit + 1 /\ UNCHANGED <<midnightTasks, loads>>
       ELSE BeginLoad /\ UNCHANGED startsInInit
    /\ UNCHANGED <<now, zoneOffset, isRunning, connected, scheduledReminders, detached,
                   checkInterval, intervals, midnightDue, sweeps, successes>>

    /\ UNCHANGED <<rolledOn, tests, bot, pair, messages>>
\* start() is called on a running engine and returns at once
StartAgain ==
    /\ startCalls < MaxStarts
    /\ startsInInit = 0 /\ loads.start = 0
    /\ startReturnsAtOnce(isRunning)
    /\ startCalls' = startCalls + 1
    /\ UNCHANGED <<now, zoneOffset, isRunning, connected, scheduledReminders, detached,
                   checkInterval, intervals, midnightTasks, midnightDue, startsInInit,
                   loads, sweeps, successes, rolledOn, tests, bot, pair, messages>>

\* whatsappService.initialize() resolves and start() goes on
StartInitialized ==
    /\ startsInInit > 0
    /\ startsInInit' = startsInInit - 1
    /\ connected' = TRUE
    /\ BeginLoad
    /\ UNCHANGED <<now, zoneOffset, isRunning, scheduledReminders, detached, checkInterval,
                   intervals, midnightDue, startCalls, sweeps, successes>>

    /\ UNCHANGED <<rolledOn, tests, bot, pair, messages>>
\* The Entry Source answers a loadTodaySchedule() that start() awaits; start()
\* then runs startImmediateReminderCheck() and sets isRunning (lines 880-885).
StartLoaded(ok) ==
    /\ loads.start > 0
    /\ \E onTime \in BOOLEAN :
         LET st == loadTodaySchedule([map |-> scheduledReminders, detached |-> detached],
                                     now, zoneOffset, ok, onTime)
         IN  /\ scheduledReminders' = st.map
             /\ detached' = st.detached
    /\ loads' = [loads EXCEPT !.start = @ - 1]
    /\ checkInterval' = NewHandle
    /\ intervals' = [h \in DOMAIN intervals \cup {NewHandle} |->
                       IF h = NewHandle THEN [phase |-> now % SweepPeriod, due |-> FALSE]
                       ELSE intervals[h]]
    /\ isRunning' = TRUE
    /\ UNCHANGED <<now, zoneOffset, connected, midnightTasks, midnightDue, startCalls,
                   startsInInit, sweeps, successes>>

    /\ UNCHANGED <<rolledOn, tests, bot, pair, messages>>
RECURSIVE scheduleUntilThrow(_, _, _, _, _, _)
\* The for loop of loadTodaySchedule when cron.schedule (line 963) throws for
\* the entry bad: scheduleReminder rejects, the await in the loop (line 933)
\* rethrows and the loop is left for the catch block of lines 937-939.  An
\* entry whose fire instant is past returns before cron.schedule is reached.
scheduleUntilThrow(entries, st, t, offset, onTime, bad) ==
    IF entries = <<>>
    THEN st
    ELSE IF Head(entries) = bad /\ ~(bad.startTime - Lead < t)
         THEN st
         ELSE scheduleUntilThrow(Tail(entries),
                                 scheduleReminder(Head(entries), st, t, offset, onTime),
                                 t, offset, onTime, bad)

\* The Entry Source answers the loadTodaySchedule() of start() and the timer
\* of today's i-th entry cannot be created; start() goes on as after any load.
StartLoadedTimerThrows(i) ==
    /\ loads.start > 0
    /\ i \in 1..Len(Timetable)
    /\ ~(getTodaySchedule(now)[i].startTime - Lead < now)
    /\ \E onTime \in BOOLEAN :
         LET st == scheduleUntilThrow(getTodaySchedule(now),
                       clearScheduledReminders([map |-> scheduledReminders,
                                                detached |-> detached]),
                       now, zoneOffset, onTime, getTodaySchedule(now)[i])
         IN  /\ scheduledReminders' = st.map
             /\ detached' = st.detached
    /\ loads' = [loads EXCEPT !.start = @ - 1]
    /\ checkInterval' = NewHandle
    /\ intervals' = [h \in DOMAIN intervals \cup {NewHandle} |->
                       IF h = NewHandle THEN [phase |-> now % SweepPeriod, due |-> FALSE]
                       ELSE intervals[h]]
    /\ isRunning' = TRUE
    /\ UNCHANGED <<now, zoneOffset, connected, midnightTasks, midnightDue, startCalls,
                   startsInInit, sweeps, successes, rolledOn, tests, bot, pair, messages>>

\* stop() on a running engine (lines 889-913)
Stop ==
    /\ ~stopReturnsAtOnce(isRunning)
    /\ LET st == clearScheduledReminders([map |-> scheduledReminders, detached |-> detached])
       IN  /\ scheduledReminders' = st.map
           /\ detached' = st.detached
    /\ intervals' = [h \in DOMAIN intervals \ {checkInterval} |-> intervals[h]]
    /\ checkInterval' = 0
    /\ isRunning' = FALSE
    /\ UNCHANGED <<now, zoneOffset, connected, midnightTasks, midnightDue, startCalls,
                   startsInInit, loads, sweeps, successes>>

    /\ UNCHANGED <<rolledOn, tests, bot, pair, messages>>
\* stop() is called on an engine that is not running and returns at once
StopIdle ==
    /\ stopReturnsAtOnce(isRunning)
    /\ UNCHANGED vars

\* ------------------------------------------------------------ rollover
\* a '0 0 * * *' task activates and calls loadTodaySchedule() (lines 917-920)
MidnightFire ==
    /\ midnightDue > 0
    /\ midnightDue' = midnightDue - 1
    /\ loads' = [loads EXCEPT !.rollover = @ + 1]
    /\ UNCHANGED <<now, zoneOffset, isRunning, connected, scheduledReminders, detached,
                   checkInterval, intervals, midnightTasks, startCalls, startsInInit,
                   sweeps, successes>>

    /\ UNCHANGED <<rolledOn, tests, bot, pair, messages>>
\* the Entry Source answers a loadTodaySchedule() called by a midnight task
RolloverLoaded(ok) ==
    /\ loads.rollover > 0
    /\ \E onTime \in BOOLEAN :
         LET st == loadTodaySchedule([map |-> scheduledReminders, detached |-> detached],
                                     now, zoneOffset, ok, onTime)
         IN  /\ scheduledReminders' = st.map
             /\ detached' = st.detached
    /\ loads' = [loads EXCEPT !.rollover = @ - 1]
    /\ rolledOn' = IF ok THEN Day(now) ELSE rolledOn
    /\ UNCHANGED <<now, zoneOffset, isRunning, connected, checkInterval, intervals,
                   midnightTasks, midnightDue, startCalls, startsInInit, sweeps, successes>>

    /\ UNCHANGED <<tests, bot, pair, messages>>
\* -------------------------------------------------------- timer path
\* sendReminder up to the await of the transport (lines 977-984), run by the
\* cron task of obj
sendReminderCall(obj) ==
    IF obj.sent THEN [obj EXCEPT !.due = FALSE]
    ELSE [obj EXCEPT !.due = FALSE, !.sending = TRUE, !.calls = Count(@)]

\* a sendReminder that leaves its cron task running
sendReminderReturnLive(obj, res) ==
    CASE res = "success" -> [obj EXCEPT !.sent = TRUE, !.sending = FALSE]
      [] res = "failure" -> [obj EXCEPT !.sending = FALSE]
      [] res = "throw"   -> [obj EXCEPT !.sending = FALSE]

\* a sendReminder that marks the reminder sent whatever the transport reports
sendReminderReturnMarked(obj, res) ==
    CASE res = "success" -> [stopTask(obj) EXCEPT !.sent = TRUE, !.sending = FALSE]
      [] res = "failure" -> [stopTask(obj) EXCEPT !.sent = TRUE, !.sending = FALSE]
      [] res = "throw"   -> [obj EXCEPT !.sending = FALSE]

\* sendReminder after the transport call has returned res (lines 986-999)
sendReminderReturn(obj, res) ==
    CASE res = "success" -> [stopTask(obj) EXCEPT !.sent = TRUE, !.sending = FALSE]
      [] res = "failure" -> [stopTask(obj) EXCEPT !.sending = FALSE]
      [] res = "throw"   -> [obj EXCEPT !.sending = FALSE]

Replace(bag, old, new) == Detach(bag (-) SetToBag({old}), new)

\* the cron task of the object stored under rid activates
TimerFire(rid) ==
    /\ Has(scheduledReminders, rid)
    /\ Activates(scheduledReminders[rid])
    /\ scheduledReminders' = [scheduledReminders EXCEPT ![rid] = sendReminderCall(@)]
    /\ UNCHANGED <<now, zoneOffset, isRunning, connected, detached, checkInterval,
                   intervals, midnightTasks, midnightDue, startCalls, startsInInit, loads,
                   sweeps, successes>>

    /\ UNCHANGED <<rolledOn, tests, bot, pair, messages>>
\* the cron task of an object the map no longer holds activates
TimerFireDetached(obj) ==
    /\ BagIn(obj, detached)
    /\ Activates(obj)
    /\ detached' = Replace(detached, obj, sendReminderCall(obj))
    /\ UNCHANGED <<now, zoneOffset, isRunning, connected, scheduledReminders, checkInterval,
                   intervals, midnightTasks, midnightDue, startCalls, startsInInit, loads,
                   sweeps, successes>>

    /\ UNCHANGED <<rolledOn, tests, bot, pair, messages>>
\* the transport answers the sendReminder call that holds the object under rid
TimerSendReturn(rid, res) ==
    /\ Has(scheduledReminders, rid)
    /\ scheduledReminders[rid].sending
    /\ res \in Results(connected)
    /\   /\ scheduledReminders' = [scheduledReminders EXCEPT ![rid] = sendReminderReturn(@, res)]
         /\ successes' = IF res = "success"
                         THEN Bump(successes, scheduledReminders[rid].entry, now)
                         ELSE successes
    /\ UNCHANGED <<now, zoneOffset, isRunning, connected, detached, checkInterval,
                   intervals, midnightTasks, midnightDue, startCalls, startsInInit, loads,
                   sweeps>>

    /\ UNCHANGED <<rolledOn, tests, bot, pair, messages>>
\* the transport answers a sendReminder call that holds a detached object
TimerSendReturnDetached(obj, res) ==
    /\ BagIn(obj, detached)
    /\ obj.sending
    /\ res \in Results(connected)
    /\   /\ detached' = Replace(detached, obj, sendReminderReturn(obj, res))
         /\ successes' = IF res = "success" THEN Bump(successes, obj.entry, now)
                         ELSE successes
    /\ UNCHANGED <<now, zoneOffset, isRunning, connected, scheduledReminders, checkInterval,
                   intervals, midnightTasks, midnightDue, startCalls, startsInInit, loads,
                   sweeps>>

    /\ UNCHANGED <<rolledOn, tests, bot, pair, messages>>
\* -------------------------------------------------------- sweep path
NoEntry == [timeSlot |-> <<>>, activity |-> <<>>, startTime |-> -1]

\* a test that lets the tick send for every fingerprint not marked sent
sweepWantsUnsent(map, rid) == ~Has(map, rid) \/ ~map[rid].sent

\* the test of the tick's loop (line 1083)
sweepWants(map, rid) == ~Has(map, rid) \/ map[rid].sent

\* a sendImmediateReminder without its early return
alreadySentIgnored(map, rid) == FALSE

\* the early return of sendImmediateReminder (lines 1099-1102)
alreadySent(map, rid) == Has(map, rid) /\ map[rid].sent

RECURSIVE sweepLoop(_, _, _)
\* The for loop of the tick (lines 1079-1091) from the entry at the head of
\* queue up to the next transport call it awaits, or to its end.  tickNow is
\* the minute of the `now` the tick read when it began (it is only compared
\* by minute: isSameOrBefore(now, 'minute')).
sweepLoop(queue, tickNow, map) ==
    IF queue = <<>>
    THEN [pc |-> "done", now |-> tickNow, cur |-> NoEntry, queue |-> <<>>]
    ELSE LET entry == Head(queue)
             reminderId == generateReminderId(entry)
             reminderTime == entry.startTime - Lead
         IN  IF /\ sweepWants(map, reminderId)
                /\ Minute(reminderTime) <= tickNow
                /\ ~alreadySent(map, reminderId)
             THEN [pc |-> "send", now |-> tickNow, cur |-> entry, queue |-> Tail(queue)]
             ELSE sweepLoop(Tail(queue), tickNow, map)

\* the transport call a tick begins is counted on the object the map holds
\* for that fingerprint, if it holds one
noteCall(map, next) ==
    LET rid == generateReminderId(next.cur)
    IN  IF next.pc = "send" /\ Has(map, rid)
        THEN [map EXCEPT ![rid].calls = Count(@)]
        ELSE map

\* a tick goes on, or ends
Continue(tick, next) ==
    IF next.pc = "done"
    THEN sweeps (-) SetToBag({tick})
    ELSE (sweeps (-) SetToBag({tick})) (+) SetToBag({next})

\* The interval's callback begins: it reads `now` and awaits the Entry Source
\* (lines 1075-1077)
SweepTick(h) ==
    /\ h \in DOMAIN intervals
    /\ intervals[h].due
    /\ BagCardinality(sweeps) < MaxSweeps
    /\ intervals' = [intervals EXCEPT ![h].due = FALSE]
    /\ sweeps' = sweeps (+) SetToBag({[pc |-> "fetch", now |-> Minute(now), cur |-> NoEntry, queue |-> <<>>]})
    /\ UNCHANGED <<now, zoneOffset, isRunning, connected, scheduledReminders, detached,
                   checkInterval, midnightTasks, midnightDue, startCalls, startsInInit,
                   loads, successes>>

    /\ UNCHANGED <<rolledOn, tests, bot, pair, messages>>
\* getUpcomingEntries answers; ok = FALSE: it rejected and the callback ends
SweepFetched(tick, ok) ==
    /\ BagIn(tick, sweeps)
    /\ tick.pc = "fetch"
    /\ LET next == sweepLoop(getUpcomingEntries(MinutesBefore, now), tick.now,
                             scheduledReminders)
       IN  IF ok
           THEN /\ sweeps' = Continue(tick, next)
                /\ scheduledReminders' = noteCall(scheduledReminders, next)
           ELSE /\ sweeps' = sweeps (-) SetToBag({tick})
                /\ UNCHANGED scheduledReminders
    /\ UNCHANGED <<now, zoneOffset, isRunning, connected, detached,
                   checkInterval, intervals, midnightTasks, midnightDue, startCalls,
                   startsInInit, loads, successes>>

    /\ UNCHANGED <<rolledOn, tests, bot, pair, messages>>
\* a sendImmediateReminder that stores its record whatever the transport reports
sendImmediateReturnMarked(entry, st, t, res) ==
    LET reminderId == generateReminderId(entry)
        immediateReminder ==
            [id |-> reminderId, entry |-> entry, reminderTime |-> t,
             cronExpression |-> NoCron, task |-> "none", sent |-> TRUE,
             due |-> FALSE, sending |-> FALSE, calls |-> 0]
    IN  IF res = "throw"
        THEN st
        ELSE [map      |-> MapSet(st.map, reminderId, immediateReminder),
              detached |-> Displaced(st, reminderId)]

\* sendImmediateReminder after the transport call has returned res
\* (lines 1108-1125), on the state st = [map, detached]
sendImmediateReturn(entry, st, t, res) ==
    LET reminderId == generateReminderId(entry)
        immediateReminder ==
            [id |-> reminderId, entry |-> entry, reminderTime |-> t,
             cronExpression |-> NoCron, task |-> "none", sent |-> TRUE,
             due |-> FALSE, sending |-> FALSE, calls |-> 0]
    IN  IF res = "success"
        THEN [map      |-> MapSet(st.map, reminderId, immediateReminder),
              detached |-> Displaced(st, reminderId)]
        ELSE st

\* the transport call of a tick returns and the loop goes on
SweepSendReturn(tick, res) ==
    /\ BagIn(tick, sweeps)
    /\ tick.pc = "send"
    /\ res \in Results(connected)
    /\ LET st == sendImmediateReturn(tick.cur, [map |-> scheduledReminders, detached |-> detached],
                                     now, res)
           next == sweepLoop(tick.queue, tick.now, st.map)
       IN  /\ scheduledReminders' = noteCall(st.map, next)
           /\ detached' = st.detached
           /\ successes' = IF res = "success" THEN Bump(successes, tick.cur, now)
                           ELSE successes
           /\ sweeps' = Continue(tick, next)
    /\ UNCHANGED <<now, zoneOffset, isRunning, connected, checkInterval, intervals,
                   midnightTasks, midnightDue, startCalls, startsInInit, loads>>

    /\ UNCHANGED <<rolledOn, tests, bot, pair, messages>>
\* -------------------------------------------------------------- Next
\* what the engine, its timers and its transport do
Engine ==
    \/ StartCall
    \/ StartAgain
    \/ StartInitialized
    \/ \E ok \in BOOLEAN : StartLoaded(ok)
    \/ Stop
    \/ StopIdle
    \/ \E rid \in Fingerprints : TimerFire(rid)
    \/ \E obj \in BagToSet(detached) : TimerFireDetached(obj)
    \/ \E rid \in Fingerprints, res \in {"success", "failure", "throw"} : TimerSendReturn(rid, res)
    \/ \E obj \in BagToSet(detached), res \in {"success", "failure", "throw"} :
          TimerSendReturnDetached(obj, res)
    \/ \E h \in 1..MaxIntervals : SweepTick(h)
    \/ \E tick \in BagToSet(sweeps), ok \in BOOLEAN : SweepFetched(tick, ok)
    \/ \E tick \in BagToSet(sweeps), res \in {"success", "failure", "throw"} :
          SweepSendReturn(tick, res)

\* The night: from the last slot of a day over midnight into the next day.
Init == InitAt(NightStart)

Next ==
    \/ Advance
    \/ MidnightFire
    \/ \E ok \in BOOLEAN : RolloverLoaded(ok)
    \/ Engine

Spec == Init /\ [][Next]_vars

\* The day: from its first instant up to its last, midnight not reached.
InitDay == InitAt(0)

AdvanceDay == now < DayEnd /\ Advance

NextDay ==
    \/ AdvanceDay
    \/ Engine

SpecDay == InitDay /\ [][NextDay]_vars

\* The day, with a timer library that can refuse to create a task.
NextTimerThrows ==
    \/ NextDay
    \/ \E i \in 1..Len(Timetable) : StartLoadedTimerThrows(i)

SpecTimerThrows == InitDay /\ [][NextTimerThrows]_vars

\* ------------------------------------------------------------ testReminder
\* a testReminder that records its send as sendImmediateReminder does
testReminderRecorded(entry, st, t, res) == sendImmediateReturn(entry, st, t, res)

\* testReminder after the transport call has returned res (lines 1167-1171),
\* on the state st = [map, detached]: nothing is recorded
testReminder(entry, st, t, res) == st

\* testReminder(entry) is called with row i of today: the message is formatted
\* and handed to the transport (lines 1167-1170)
TestReminderCall(i) ==
    /\ BagCardinality(tests) < MaxTests
    /\ i \in 1..Len(getTodaySchedule(now))
    /\ tests' = tests (+) SetToBag({getTodaySchedule(now)[i]})
    /\ UNCHANGED <<now, zoneOffset, isRunning, connected, scheduledReminders, detached,
                   checkInterval, intervals, midnightTasks, midnightDue, startCalls,
                   startsInInit, loads, sweeps, successes, rolledOn, bot, pair, messages>>

\* the transport call of a testReminder returns or throws (lines 1170-1171)
TestReminderReturn(entry, res) ==
    /\ BagIn(entry, tests)
    /\ res \in Results(connected)
    /\ LET st == testReminder(entry, [map |-> scheduledReminders, detached |-> detached],
                              now, res)
       IN  /\ scheduledReminders' = st.map
           /\ detached' = st.detached
    /\ successes' = IF res = "success" THEN Bump(successes, entry, now) ELSE successes
    /\ tests' = tests (-) SetToBag({entry})
    /\ UNCHANGED <<now, zoneOffset, isRunning, connected, checkInterval, intervals,
                   midnightTasks, midnightDue, startCalls, startsInInit, loads, sweeps,
                   rolledOn, bot, pair, messages>>

\* The day, with an operator who sends test reminders.
NextTest ==
    \/ NextDay
    \/ \E i \in 1..Len(Timetable) : TestReminderCall(i)
    \/ \E entry \in BagToSet(tests), res \in {"success", "failure", "throw"} :
          TestReminderReturn(entry, res)

SpecTest == InitDay /\ [][NextTest]_vars

\* ------------------------------------------------- unhandled rejections
\* the process has not ended
Alive == bot.pc # "exited"

\* getUpcomingEntries rejects in a tick.  The interval's callback is an async
\* function without a try block (lines 1075-1092), so its promise rejects
\* with no handler: the process emits 'unhandledRejection' and the handler
\* of index.ts ends it (lines 118-121).
SweepFetchRejected(tick) ==
    /\ BagIn(tick, sweeps)
    /\ tick.pc = "fetch"
    /\ sweeps' = sweeps (-) SetToBag({tick})
    /\ bot' = [bot EXCEPT !.pc = "exited", !.error = "unhandledRejection"]
    /\ UNCHANGED <<now, zoneOffset, isRunning, connected, scheduledReminders, detached,
                   checkInterval, intervals, midnightTasks, midnightDue, startCalls,
                   startsInInit, loads, successes, rolledOn, tests, pair, messages>>

\* The day of the process: the engine is started once, and nothing runs once
\* the process has ended.
NextProcess ==
    \/ Alive /\ AdvanceDay
    \/ Alive /\ startCalls = 0 /\ StartCall
    \/ Alive /\ StartInitialized
    \/ Alive /\ StartLoaded(TRUE)
    \/ Alive /\ \E rid \in Fingerprints : TimerFire(rid)
    \/ Alive /\ \E obj \in BagToSet(detached) : TimerFireDetached(obj)
    \/ Alive /\ \E rid \in Fingerprints, res \in {"success", "failure"} : TimerSendReturn(rid, res)
    \/ Alive /\ \E obj \in BagToSet(detached), res \in {"success", "failure"} :
                   TimerSendReturnDetached(obj, res)
    \/ Alive /\ \E h \in 1..MaxIntervals : SweepTick(h)
    \/ Alive /\ \E tick \in BagToSet(sweeps) : SweepFetched(tick, TRUE)
    \/ Alive /\ \E tick \in BagToSet(sweeps) : SweepFetchRejected(tick)
    \/ Alive /\ \E tick \in BagToSet(sweeps), res \in {"success", "failure"} :
                   SweepSendReturn(tick, res)

SpecProcess == InitDay /\ [][NextProcess]_vars

\* ------------------------------------------------------ overlapping starts
\* start() is called while an earlier start() awaits initialize() or the
\* load: isRunning is set only by the last statement of start() (line 885),
\* so the test of line 864 lets the call through
StartCallDuring ==
    /\ startCalls < MaxStarts
    /\ startsInInit > 0 \/ loads.start > 0
    /\ ~startReturnsAtOnce(isRunning)
    /\ startCalls' = startCalls + 1
    /\ IF mustInitialize(connected)
       THEN startsInInit' = startsInInit + 1 /\ UNCHANGED <<midnightTasks, loads>>
       ELSE BeginLoad /\ UNCHANGED startsInInit
    /\ UNCHANGED <<now, zoneOffset, isRunning, connected, scheduledReminders, detached,
                   checkInterval, intervals, midnightDue, sweeps, successes, rolledOn,
                   tests, bot, pair, messages>>

\* The day of an engine whose start() is called once and, while that call is
\* not finished, a second time.
NextOverlap ==
    \/ AdvanceDay
    \/ startCalls = 0 /\ StartCall
    \/ StartCallDuring
    \/ StartInitialized
    \/ \E ok \in BOOLEAN : StartLoaded(ok)
    \/ Stop
    \/ \E rid \in Fingerprints : TimerFire(rid)
    \/ \E obj \in BagToSet(detached) : TimerFireDetached(obj)
    \/ \E rid \in Fingerprints, res \in {"success", "failure", "throw"} : TimerSendReturn(rid, res)
    \/ \E obj \in BagToSet(detached), res \in {"success", "failure", "throw"} :
          TimerSendReturnDetached(obj, res)
    \/ \E h \in 1..MaxIntervals : SweepTick(h)
    \/ \E tick \in BagToSet(sweeps), ok \in BOOLEAN : SweepFetched(tick, ok)
    \/ \E tick \in BagToSet(sweeps), res \in {"success", "failure", "throw"} :
          SweepSendReturn(tick, res)

SpecOverlap == InitDay /\ [][NextOverlap]_vars

\* ------------------------------------------------------- the transport
\* a transport call is awaited by a timer, a tick or a testReminder
CallInFlight ==
    \/ \E rid \in DOMAIN scheduledReminders : scheduledReminders[rid].sending
    \/ \E obj \in BagToSet(detached) : obj.sending
    \/ \E tick \in BagToSet(sweeps) : tick.pc = "send"
    \/ tests # EmptyBag

\* MockWhatsAppService.disconnect() (part_007, lines 68-72), called by the
\* stop() of the chat bot after the engine's stop() has returned
\* (ReminderChatBot.ts, lines 254-258)
Disconnect ==
    /\ startCalls > 0 /\ ~isRunning /\ startsInInit = 0 /\ loads.start = 0
    /\ connected
    /\ connected' = FALSE
    /\ UNCHANGED <<now, zoneOffset, isRunning, scheduledReminders, detached, checkInterval,
                   intervals, midnightTasks, midnightDue, startCalls, startsInInit, loads,
                   sweeps, successes, rolledOn, tests, bot, pair, messages>>

\* The day of an engine whose transport is disconnected after a stop() and
\* initialized again by the next start().  sendMessage tests `connected` when
\* it is called (line 38) and the model draws the answer when the call
\* returns, so the transport changes its state between calls: a call on a
\* transport that is not connected has thrown before initialize() resolves,
\* and the bot disconnects when no call is awaited.
NextTransport ==
    \/ AdvanceDay
    \/ StartCall
    \/ ~CallInFlight /\ StartInitialized
    \/ StartLoaded(TRUE)
    \/ Stop
    \/ ~CallInFlight /\ Disconnect
    \/ \E rid \in Fingerprints : TimerFire(rid)
    \/ \E obj \in BagToSet(detached) : TimerFireDetached(obj)
    \/ \E rid \in Fingerprints, res \in {"success", "failure", "throw"} : TimerSendReturn(rid, res)
    \/ \E obj \in BagToSet(detached), res \in {"success", "failure", "throw"} :
          TimerSendReturnDetached(obj, res)
    \/ \E h \in 1..MaxIntervals : SweepTick(h)
    \/ \E tick \in BagToSet(sweeps) : SweepFetched(tick, TRUE)
    \/ \E tick \in BagToSet(sweeps), res \in {"success", "failure", "throw"} :
          SweepSendReturn(tick, res)
    \/ \E i \in 1..Len(Timetable) : TestReminderCall(i)
    \/ \E entry \in BagToSet(tests), res \in {"success", "failure", "throw"} :
          TestReminderReturn(entry, res)

SpecTransport == InitDay /\ [][NextTransport]_vars

\* The day of an engine that is started once, with an Entry Source that may
\* fail and a transport that may fail and, once the bot has stopped the
\* engine and disconnected it, throws for the ticks still under way.
NextSweep ==
    \/ AdvanceDay
    \/ startCalls = 0 /\ StartCall
    \/ StartInitialized
    \/ StartLoaded(TRUE)
    \/ Stop
    \/ ~CallInFlight /\ Disconnect
    \/ \E rid \in Fingerprints : TimerFire(rid)
    \/ \E obj \in BagToSet(detached) : TimerFireDetached(obj)
    \/ \E rid \in Fingerprints, res \in {"success", "failure", "throw"} : TimerSendReturn(rid, res)
    \/ \E obj \in BagToSet(detached), res \in {"success", "failure", "throw"} :
          TimerSendReturnDetached(obj, res)
    \/ \E h \in 1..MaxIntervals : SweepTick(h)
    \/ \E tick \in BagToSet(sweeps), ok \in BOOLEAN : SweepFetched(tick, ok)
    \/ \E tick \in BagToSet(sweeps), res \in {"success", "failure", "throw"} :
          SweepSendReturn(tick, res)

SpecSweep == InitDay /\ [][NextSweep]_vars

\* The day of an engine that is started once and keeps running, with an
\* Entry Source that answers and a transport that succeeds.  Every callback
\* that is due runs and every awaited call returns: the event loop leaves
\* nothing that is enabled waiting for ever.
NextLive ==
    \/ AdvanceDay
    \/ startCalls = 0 /\ StartCall
    \/ StartInitialized
    \/ StartLoaded(TRUE)
    \/ \E rid \in Fingerprints : TimerFire(rid)
    \/ \E obj \in BagToSet(detached) : TimerFireDetached(obj)
    \/ \E rid \in Fingerprints : TimerSendReturn(rid, "success")
    \/ \E obj \in BagToSet(detached) : TimerSendReturnDetached(obj, "success")
    \/ \E h \in 1..MaxIntervals : SweepTick(h)
    \/ \E tick \in BagToSet(sweeps) : SweepFetched(tick, TRUE)
    \/ \E tick \in BagToSet(sweeps) : SweepSendReturn(tick, "success")

\* the host is in the zone of the cron tasks, or west of it
InitLive ==
    /\ InitZoned(0, 0..MaxHostZoneOffset)
    /\ bot = NewBot(GoodSetup)
    /\ pair = NoPair

SpecLive == InitLive /\ [][NextLive]_vars /\ WF_vars(NextLive)

\* ------------------------------------------------- the message formatter
\* A text is a sequence of pieces; a description enters it character by
\* character, and a template names its placeholders as pieces.
MaxFormats == 2

\* a CUSTOM_REMINDER_MESSAGE that uses every placeholder
CustomMessage ==
    <<"{subject}", "(", "{type}", "at", "{location}", ")", "in", "{minutesBefore}",
      "minutes", "at", "{time}", ":", "{activity}">>

Templates == {<<>>, CustomMessage}

\* moment(date).format('h:mm A'): the time of day of the instant
formatTime(t) == <<ToString(MinuteOfDay(t))>>

\* s.includes(word)
includes(s, word) ==
    \E i \in 1..(Len(s) - Len(word) + 1) : SubSeq(s, i, i + Len(word) - 1) = word

\* s.split(':'): the pieces of s between its colons
RECURSIVE split(_)
split(s) ==
    IF \A i \in 1..Len(s) : s[i] # ":"
    THEN <<s>>
    ELSE LET i == CHOOSE k \in 1..Len(s) : s[k] = ":" /\ \A j \in 1..(k - 1) : s[j] # ":"
         IN  <<SubSeq(s, 1, i - 1)>> \o split(SubSeq(s, i + 1, Len(s)))

\* text.replace(/placeholder/g, value)
RECURSIVE replaceAll(_, _, _)
replaceAll(text, placeholder, value) ==
    IF text = <<>>
    THEN <<>>
    ELSE (IF Head(text) = placeholder THEN value ELSE <<Head(text)>>)
         \o replaceAll(Tail(text), placeholder, value)

\* the keywords of the description after the colon, first match first (lines 1022-1028)
PlaceRules ==
    << [words |-> {<<"g", "y", "m">>}, location |-> "GYM"],
       [words |-> {<<"h", "o", "m", "e">>}, location |-> "Home"],
       [words |-> {<<"o", "f", "f", "i", "c", "e">>}, location |-> "Office"] >>

\* the keywords of the activity, first match first (lines 1034-1058)
TypeRules ==
    << [words |-> {<<"p", "r", "a", "y", "e", "r">>}, type |-> "Prayer", location |-> "Home"],
       [words |-> {<<"g", "y", "m">>}, type |-> "Exercise", location |-> "GYM"],
       [words |-> {<<"w", "o", "r", "k">>, <<"o", "f", "f", "i", "c", "e">>}, type |-> "Work", location |-> "Office"],
       [words |-> {<<"r", "e", "a", "d">>, <<"q", "u", "r", "a", "n">>}, type |-> "Study", location |-> "Home"],
       [words |-> {<<"w", "a", "l", "k">>}, type |-> "Exercise", location |-> "Outdoor"],
       [words |-> {<<"f", "a", "m", "i", "l", "y">>}, type |-> "Personal", location |-> "Home"],
       [words |-> {<<"m", "e", "e", "t">>, <<"c", "o", "f", "f", "e", "e">>}, type |-> "Social", location |-> "Meeting Place"],
       [words |-> {<<"r", "e", "s", "t">>, <<"s", "l", "e", "e", "p">>}, type |-> "Rest", location |-> "Home"] >>

\* the first rule with a word that s includes, 0 if there is none
firstRule(rules, s) ==
    IF \E k \in 1..Len(rules) : \E w \in rules[k].words : includes(s, w)
    THEN CHOOSE k \in 1..Len(rules) :
            /\ \E w \in rules[k].words : includes(s, w)
            /\ \A j \in 1..(k - 1) : \A w \in rules[j].words : ~includes(s, w)
    ELSE 0

\* a formatter that tells the minutes left on the clock
formatReminderMessageByClock(entry, minutesBefore, message) ==
    <<"REMINDER", "in", ToString(Minute(entry.startTime) - Minute(now)), "minutes", "at">>
    \o formatTime(entry.startTime) \o entry.timeSlot \o entry.activity

\* formatReminderMessage (lines 1002-1071) with reminderConfig.minutesBefore
\* and reminderConfig.message
formatReminderMessage(entry, minutesBefore, message) ==
    LET activity == entry.activity
        startTime == formatTime(entry.startTime)
        parts == split(activity)
        hasColon == includes(activity, <<":">>)
        subject == IF hasColon /\ trim(parts[1]) # <<>> THEN trim(parts[1]) ELSE activity
        place == IF hasColon /\ parts[2] # <<>>
                 THEN firstRule(PlaceRules, toLowerCase(trim(parts[2])))
                 ELSE 0
        rule == firstRule(TypeRules, toLowerCase(activity))
        type == IF rule # 0 THEN TypeRules[rule].type ELSE "Activity"
        location == IF rule # 0 THEN TypeRules[rule].location
                    ELSE IF place # 0 THEN PlaceRules[place].location
                    ELSE "Scheduled Location"
    IN  IF message # <<>>
        THEN replaceAll(replaceAll(replaceAll(replaceAll(replaceAll(replaceAll(message,
                 "{subject}", subject), "{type}", <<type>>), "{location}", <<location>>),
                 "{minutesBefore}", <<ToString(minutesBefore)>>), "{time}", startTime),
                 "{activity}", activity)
        ELSE <<"REMINDER", "in", ToString(minutesBefore), "minutes", "at">>
             \o startTime \o entry.timeSlot \o activity

\* formatReminderMessage is called for row i of today, as testReminder, a
\* timer and a sweep call it
FormatCall(i) ==
    /\ Cardinality(messages) < MaxFormats
    /\ i \in 1..Len(getTodaySchedule(now))
    /\ LET entry == getTodaySchedule(now)[i]
       IN  messages' = messages \cup
               {[entry |-> entry,
                 text  |-> formatReminderMessage(entry, bot.setup.minutesBefore, bot.setup.message),
                 at    |-> now,
                 count |-> Cardinality(DOMAIN scheduledReminders)]}
    /\ UNCHANGED <<now, zoneOffset, isRunning, connected, scheduledReminders, detached,
                   checkInterval, intervals, midnightTasks, midnightDue, startCalls,
                   startsInInit, loads, sweeps, successes, rolledOn, tests, bot, pair>>

\* The day of an engine that is started once, with either template.
InitFormat ==
    \E message \in Templates :
        InitWith(0, NewBot([GoodSetup EXCEPT !.message = message]))

NextFormat ==
    \/ AdvanceDay
    \/ startCalls = 0 /\ StartCall
    \/ StartInitialized
    \/ \E ok \in BOOLEAN : StartLoaded(ok)
    \/ \E rid \in Fingerprints : TimerFire(rid)
    \/ \E obj \in BagToSet(detached) : TimerFireDetached(obj)
    \/ \E rid \in Fingerprints, res \in {"success", "failure", "throw"} : TimerSendReturn(rid, res)
    \/ \E obj \in BagToSet(detached), res \in {"success", "failure", "throw"} :
          TimerSendReturnDetached(obj, res)
    \/ \E h \in 1..MaxIntervals : SweepTick(h)
    \/ \E tick \in BagToSet(sweeps), ok \in BOOLEAN : SweepFetched(tick, ok)
    \/ \E tick \in BagToSet(sweeps), res \in {"success", "failure", "throw"} :
          SweepSendReturn(tick, res)
    \/ \E i \in 1..Len(Timetable) : FormatCall(i)

SpecFormat == InitFormat /\ [][NextFormat]_vars

\* ------------------------------------------------------- fingerprints
Repeat(c, n) == [i \in 1..n |-> c]

StringsUpTo(alphabet, n) == UNION {[1..k -> alphabet] : k \in 0..n}

\* Activity cells as parseTimeSlot stores them (trimmed): short ones, and ones
\* that reach over the prefix generateReminderId cuts
Descriptions ==
    {d \in {h \o t : h \in {<<>>, Repeat("a", PrefixLen - 1)},
                     t \in StringsUpTo({"a", "B", " "}, MaxTail)} \cup {<<"B", "-", "a">>} :
        trim(d) = d}

\* Time Slot cells: two spellings of one slot, and one with a suffix
Labels == {<<"1", " ", "A", "M">>, <<"1", "a", "m">>, <<"1", "a", "m", "-", "B">>}

Rows == [timeSlot : Labels, activity : Descriptions]

\* Two entries whose fingerprints are to be generated.
InitId ==
    /\ InitEngine(0)
    /\ bot = NewBot(GoodSetup)
    /\ pair \in [a : Rows, b : Rows, ids : {<<>>}]

\* generateReminderId is applied to both entries
GenerateIds ==
    /\ pair.ids = <<>>
    /\ pair' = [pair EXCEPT !.ids = <<generateReminderId(pair.a), generateReminderId(pair.b)>>]
    /\ UNCHANGED <<now, zoneOffset, isRunning, connected, scheduledReminders, detached,
                   checkInterval, intervals, midnightTasks, midnightDue, startCalls,
                   startsInInit, loads, sweeps, successes, rolledOn, tests, bot, messages>>

NextId == GenerateIds

SpecId == InitId /\ [][NextId]_vars

\* ------------------------------------------------------- ReminderChatBot
\* start() is called: the environment is validated first, and a missing
\* variable ends the process (lines 143-163)
BotStart ==
    /\ bot.pc = "idle" /\ ~bot.isRunning
    /\ bot' = IF validateEnvironmentVariables(bot.setup)
              THEN [bot EXCEPT !.pc = "validate"]
              ELSE [bot EXCEPT !.pc = "exited", !.error = "env"]
    /\ UNCHANGED EngineVars

\* start() is called on a running bot and returns at once (lines 144-147)
BotStartAgain ==
    /\ bot.isRunning
    /\ UNCHANGED vars

\* the configuration is validated (lines 165-171)
BotValidateConfig ==
    /\ bot.pc = "validate"
    /\ bot' = IF validateConfig(bot.setup)
              THEN [bot EXCEPT !.pc = "file"]
              ELSE [bot EXCEPT !.pc = "failed", !.error = "config"]
    /\ UNCHANGED EngineVars

\* the timetable file is looked for, and its summary displayed (lines 173-180)
BotValidateTimetable ==
    /\ bot.pc = "file"
    /\ bot' = IF validateTimetableFile(bot.setup)
              THEN [bot EXCEPT !.pc = "starting"]
              ELSE [bot EXCEPT !.pc = "failed", !.error = "file"]
    /\ UNCHANGED EngineVars

\* schedulerService.start() has returned; the dashboard starts or throws, and
\* the bot is running (lines 183-201)
BotStarted(ok) ==
    /\ bot.pc = "starting"
    /\ startCalls > 0 /\ startsInInit = 0 /\ loads.start = 0
    /\ bot' = IF ok
              THEN [bot EXCEPT !.pc = "running", !.isRunning = TRUE]
              ELSE [bot EXCEPT !.pc = "failed", !.error = "dashboard"]
    /\ UNCHANGED EngineVars

\* the catch of start(): handleShutdown() calls stop(), which returns at once
\* on a bot that is not running, and ends the process unless NODE_ENV is
\* 'test'; then the error is thrown again (lines 203-207, 297-314)
BotFailed ==
    /\ bot.pc = "failed"
    /\ bot' = [bot EXCEPT !.pc = IF bot.setup.testEnv THEN "rejected" ELSE "exited"]
    /\ UNCHANGED EngineVars

\* One ReminderChatBot.start(), over the configurations and environments.
InitBot == \E setup \in Setups : InitWith(0, NewBot(setup))

NextBot ==
    \/ BotStart
    \/ BotStartAgain
    \/ BotValidateConfig
    \/ BotValidateTimetable
    \/ bot.pc = "starting" /\ StartCall
    \/ bot.pc = "starting" /\ StartInitialized
    \/ bot.pc = "starting" /\ \E ok \in BOOLEAN : StartLoaded(ok)
    \/ \E ok \in BOOLEAN : BotStarted(ok)
    \/ BotFailed

SpecBot == InitBot /\ [][NextBot]_vars

\* stop() is called on a running bot (lines 239-252): the keep-alive service
\* and the dashboard are stopped; ok = FALSE: one of them throws, the catch
\* of lines 262-264 logs and stop() returns
BotStopCall(ok) ==
    /\ bot.pc = "running" /\ bot.isRunning
    /\ bot' = [bot EXCEPT !.pc = IF ok THEN "stopping" ELSE "stopFailed"]
    /\ UNCHANGED EngineVars

\* 'await this.schedulerService.stop()' (line 255)
BotStopScheduler ==
    /\ bot.pc = "stopping"
    /\ Stop

\* 'await this.whatsappService.disconnect()' and 'this.isRunning = false'
\* (lines 258-260); ok = FALSE: disconnect() rejects, the catch logs and
\* stop() returns
BotDisconnect(ok) ==
    /\ bot.pc = "stopping" /\ ~isRunning
    /\ connected' = IF ok THEN FALSE ELSE connected
    /\ bot' = IF ok
              THEN [bot EXCEPT !.pc = "stopped", !.isRunning = FALSE]
              ELSE [bot EXCEPT !.pc = "stopFailed"]
    /\ UNCHANGED <<now, zoneOffset, isRunning, scheduledReminders, detached, checkInterval,
                   intervals, midnightTasks, midnightDue, startCalls, startsInInit, loads,
                   sweeps, successes, rolledOn, tests, pair, messages>>

\* One ReminderChatBot.start() and, on the running bot, one stop().
NextBotStop ==
    \/ NextBot
    \/ \E ok \in BOOLEAN : BotStopCall(ok)
    \/ BotStopScheduler
    \/ \E ok \in BOOLEAN : BotDisconnect(ok)

SpecBotStop == InitBot /\ [][NextBotStop]_vars

\* ------------------------------------------------------------ properties
\* the registry map has a record of fingerprint rid with sent = TRUE
MarkedSentIn(map, rid) == Has(map, rid) /\ map[rid].sent

\* C1: within one calendar day the transport returns success at most once
\* for each fingerprint.
C1_AtMostOneSuccessPerDay ==
    \A d \in Days : \A f \in Fingerprints : successes[d][f] <= 1

\* C2: for a reminder that scheduleReminder registered and the map holds, the
\* activation of its timer and the sweep ticks for its fingerprint make one
\* transport call in total: never more than one, and one as soon as the timer
\* has activated.
TimerHasRun(obj) == obj.sending \/ obj.sent \/ obj.task = "stopped"

C2_OneCallForTimerAndSweep ==
    \A rid \in DOMAIN scheduledReminders :
        LET obj == scheduledReminders[rid]
        IN  obj.task # "none" =>
              /\ obj.calls <= 1
              /\ TimerHasRun(obj) => obj.calls = 1

\* a tick whose window held a registered reminder has passed over it and is
\* sending a later entry, while the reminder's timer awaits the transport
C2_Witness ==
    \E tick \in BagToSet(sweeps) : \E rid \in DOMAIN scheduledReminders :
        LET obj == scheduledReminders[rid]
        IN  /\ tick.pc = "send"
            /\ rid # generateReminderId(tick.cur)
            /\ obj.sending /\ obj.calls = 1
            /\ tick.now <= Minute(obj.entry.startTime)
            /\ Minute(obj.entry.startTime) <= tick.now + MinutesBefore

\* the fire instant of an entry: its start minus the lead time
fireInstant(entry) == entry.startTime - Lead

\* today's entries as the Entry Source resolves the rows at instant t
TodayEntry(i, t) == parseTimeSlot(Timetable[i], t)

\* C3: a load of today's schedule leaves an entry whose fire instant is before
\* now without record and creates no timer for it, and gives an entry whose
\* fire instant is now or later one record with sent = FALSE and a live timer.
C3_LoadRegistersByFireInstant ==
    [][(StartLoaded(TRUE) \/ RolloverLoaded(TRUE)) =>
         \A i \in 1..Len(Timetable) :
             LET entry == TodayEntry(i, now)
                 rid == generateReminderId(entry)
             IN  IF fireInstant(entry) < now
                 THEN /\ ~Has(scheduledReminders', rid)
                      /\ \A obj \in BagToSet(detached') :
                             obj.id = rid /\ obj.task = "live" =>
                                 CopiesIn(obj, detached') <= CopiesIn(obj, detached)
                 ELSE /\ Has(scheduledReminders', rid)
                      /\ scheduledReminders'[rid].sent = FALSE
                      /\ scheduledReminders'[rid].task = "live"
                      /\ scheduledReminders'[rid].reminderTime = fireInstant(entry)
      ]_vars

\* a load has registered one entry and skipped another
C3_Witness ==
    /\ startCalls > 0 /\ startsInInit = 0
    /\ loads = [start |-> 0, rollover |-> 0]
    /\ \E i, j \in 1..Len(Timetable) :
          LET kept == generateReminderId(TodayEntry(i, now))
              skipped == TodayEntry(j, now)
          IN  /\ Has(scheduledReminders, kept)
              /\ scheduledReminders[kept].task = "live"
              /\ ~scheduledReminders[kept].sent
              /\ scheduledReminders[kept].reminderTime > now
              /\ Day(scheduledReminders[kept].reminderTime) = Day(now)
              /\ fireInstant(skipped) < now
              /\ ~Has(scheduledReminders, generateReminderId(skipped))

\* the entries of a sequence that no record holds the fingerprint of and whose
\* fire instant is not after the minute the tick began in
Unregistered(entries, map, tickNow) ==
    SelectSeq(entries, LAMBDA e : /\ ~Has(map, generateReminderId(e))
                                  /\ Minute(fireInstant(e)) <= tickNow)

\* today's entries whose start lies in the look-ahead window of minute m
InWindow(m, t) ==
    SelectSeq([i \in 1..Len(Timetable) |-> TodayEntry(i, t)],
              LAMBDA e : m <= Minute(e.startTime) /\ Minute(e.startTime) <= m + MinutesBefore)

\* the step leaves one more tick that awaits the transport for entry and
\* still has the entries `rest` to send
Sends(entry, rest, map, tickNow) ==
    \E tick \in BagToSet(sweeps') :
        /\ CopiesIn(tick, sweeps') > CopiesIn(tick, sweeps)
        /\ tick.pc = "send" /\ tick.cur = entry
        /\ Unregistered(tick.queue, map, tickNow) = rest

\* C4: a tick sends every entry of its look-ahead window that the load
\* skipped (no record holds its fingerprint, its fire instant has passed):
\* when the Entry Source answers it calls the transport for the first of
\* them, when a call returns it calls the transport for the next, and a call
\* that returns success leaves a record with sent = TRUE.
C4_SweepSendsSkippedEntries ==
    [][\A tick \in BagToSet(sweeps) :
         /\ SweepFetched(tick, TRUE) =>
               LET owed == Unregistered(InWindow(tick.now, now), scheduledReminders, tick.now)
               IN  owed # <<>> =>
                     Sends(Head(owed), Tail(owed), scheduledReminders, tick.now)
         /\ \A res \in {"success", "failure"} :
               SweepSendReturn(tick, res) =>
                 LET owed == Unregistered(tick.queue, scheduledReminders', tick.now)
                 IN  /\ owed # <<>> =>
                           Sends(Head(owed), Tail(owed), scheduledReminders', tick.now)
                     /\ res = "success" =>
                           alreadySent(scheduledReminders', generateReminderId(tick.cur))
      ]_vars

\* the one load of this run registered a later entry and skipped the entry
\* that a tick now awaits the transport for
C4_Witness ==
    /\ startCalls = 1 /\ isRunning
    /\ \E tick \in BagToSet(sweeps) : \E rid \in DOMAIN scheduledReminders :
          /\ tick.pc = "send"
          /\ ~Has(scheduledReminders, generateReminderId(tick.cur))
          /\ fireInstant(tick.cur) < now
          /\ scheduledReminders[rid].task # "none"
          /\ scheduledReminders[rid].reminderTime > fireInstant(tick.cur)

\* the fingerprints of today's entries that a load at instant t registers
Registrable(t) ==
    {generateReminderId(TodayEntry(i, t)) :
        i \in {j \in 1..Len(Timetable) : fireInstant(TodayEntry(j, t)) >= t}}

\* C5 (as stated): after a rollover the registry holds only records of the
\* new day, their count is the number of entries the rollover registered, and
\* a fingerprint that was sent = TRUE is registered again with sent = FALSE.
C5_CountIsRegisteredEntries ==
    [][RolloverLoaded(TRUE) =>
         /\ \A rid \in DOMAIN scheduledReminders' :
               Day(scheduledReminders'[rid].entry.startTime) = Day(now)
         /\ Cardinality(DOMAIN scheduledReminders') =
               Cardinality({i \in 1..Len(Timetable) : fireInstant(TodayEntry(i, now)) >= now})
         /\ \A rid \in DOMAIN scheduledReminders :
               scheduledReminders[rid].sent =>
                 Has(scheduledReminders', rid) /\ ~scheduledReminders'[rid].sent
      ]_vars

\* C5 (amended): after a rollover the registry holds exactly one fresh record
\* (new day, sent = FALSE, live timer) for each fingerprint among the new
\* day's entries whose fire instant is not before now, and nothing else; a
\* fingerprint that was sent = TRUE has a fresh record or none.
C5_RolloverReplacesRegistry ==
    [][RolloverLoaded(TRUE) =>
         /\ DOMAIN scheduledReminders' = Registrable(now)
         /\ \A rid \in DOMAIN scheduledReminders' :
               /\ Day(scheduledReminders'[rid].entry.startTime) = Day(now)
               /\ ~scheduledReminders'[rid].sent
               /\ scheduledReminders'[rid].task = "live"
         /\ \A rid \in DOMAIN scheduledReminders :
               scheduledReminders[rid].sent => ~alreadySent(scheduledReminders', rid)
      ]_vars

\* the engine has run since the day before, where a reminder was sent; the
\* rollover has registered its fingerprint again
C5_Witness ==
    /\ Day(now) = 1 /\ isRunning /\ startCalls = 1
    /\ midnightDue = 0 /\ loads.rollover = 0
    /\ \E rid \in DOMAIN scheduledReminders :
          /\ successes[0][rid] = 1
          /\ Day(scheduledReminders[rid].entry.startTime) = 1
          /\ ~scheduledReminders[rid].sent
          /\ scheduledReminders[rid].task = "live"

\* stop() has returned and start() has not been called since
Stopped == startCalls > 0 /\ ~isRunning /\ startsInInit = 0 /\ loads.start = 0

\* C6: after stop() has returned nothing of the stopped engine inserts a
\* record into the registry (stop() left it empty) until start() is called.
C6_NoRecordAfterStop == Stopped => DOMAIN scheduledReminders = {}

C8_MarkedBeforeInvoke ==
    /\ \A rid \in DOMAIN scheduledReminders :
          scheduledReminders[rid].sending => scheduledReminders[rid].sent
    /\ \A obj \in BagToSet(detached) : obj.sending => obj.sent
    /\ \A tick \in BagToSet(sweeps) :
          tick.pc = "send" => alreadySent(scheduledReminders, generateReminderId(tick.cur))

\* the transport calls in flight for fingerprint f
InFlight(f) ==
    LET timers == {obj \in BagToSet(detached) : obj.id = f /\ obj.sending}
        ticks == {tick \in BagToSet(sweeps) :
                    tick.pc = "send" /\ generateReminderId(tick.cur) = f}
    IN  (IF Has(scheduledReminders, f) /\ scheduledReminders[f].sending THEN 1 ELSE 0)
        + BagCardinality([obj \in timers |-> CopiesIn(obj, detached)])
        + BagCardinality([tick \in ticks |-> CopiesIn(tick, sweeps)])

\* C9: at every moment at most one transport call is in flight for a
\* fingerprint.
C9_SingleFlight == \A f \in Fingerprints : InFlight(f) <= 1

\* C10: when the look-ahead query of a tick answers, the tick calls the
\* transport for the first returned entry whose fingerprint is not marked
\* sent and whose fire instant is at or before now, also when the registry
\* holds a record with sent = FALSE for it.
C10_SweepSendsUnsent ==
    [][\A tick \in BagToSet(sweeps) :
         SweepFetched(tick, TRUE) =>
           LET wanted == SelectSeq(getUpcomingEntries(MinutesBefore, now),
                                   LAMBDA e : /\ ~alreadySent(scheduledReminders,
                                                              generateReminderId(e))
                                              /\ Minute(fireInstant(e)) <= tick.now)
           IN  wanted # <<>> =>
                 \E next \in BagToSet(sweeps') :
                     /\ CopiesIn(next, sweeps') > CopiesIn(next, sweeps)
                     /\ next.pc = "send" /\ next.cur = Head(wanted)
      ]_vars

\* the registry holds a record with sent = TRUE for the fingerprint of entry
MarkedSent(entry) ==
    LET rid == generateReminderId(entry)
    IN  rid \in DOMAIN scheduledReminders /\ scheduledReminders[rid].sent

\* every entry of the look-ahead window of minute m is marked sent
WindowAllSent(m) ==
    LET window == InWindow(m, now)
    IN  window # <<>> /\ \A i \in 1..Len(window) : MarkedSent(window[i])

\* C11: a sweep tick whose look-ahead window holds only entries that are
\* marked sent ends without a transport call and leaves the registry and the
\* timers as they are, so any number of such ticks has the effect of one.
C11_SweepOverSentIsIdle ==
    [][\A tick \in BagToSet(sweeps) :
         SweepFetched(tick, TRUE) /\ WindowAllSent(tick.now) =>
           /\ sweeps' = sweeps (-) SetToBag({tick})
           /\ UNCHANGED <<scheduledReminders, detached, successes>>
      ]_vars

\* the Entry Source is about to answer a tick whose window is all sent
C11_Witness ==
    \E tick \in BagToSet(sweeps) :
        /\ tick.pc = "fetch" /\ tick.now = Minute(now)
        /\ WindowAllSent(tick.now)

\* C12: a midnight load that runs when one has gone through for today
\* already clears nothing and registers nothing.
C12_SecondRolloverIsIdle ==
    [][RolloverLoaded(TRUE) /\ rolledOn = Day(now) =>
         UNCHANGED <<scheduledReminders, detached>>
      ]_vars

\* C13: when the timer of one entry cannot be created during a load, every
\* later entry whose fire instant is not past is registered with a timer.
C13_TimerFailureIsConfined ==
    [][\A i \in 1..Len(Timetable) :
         StartLoadedTimerThrows(i) =>
           \A j \in (i + 1)..Len(Timetable) :
               LET entry == TodayEntry(j, now)
                   rid == generateReminderId(entry)
               IN  fireInstant(entry) >= now =>
                     /\ Has(scheduledReminders', rid)
                     /\ scheduledReminders'[rid].task = "live"
      ]_vars

\* C14: when the Entry Source fails during the load of start(), start() does
\* not end with the engine running.
C14_FailedLoadStopsStart ==
    [][StartLoaded(FALSE) => ~isRunning']_vars

\* what a start() that returns at once and a stop() that returns at once
\* leave alone: the engine, its registry, its timers and the transport
EngineState ==
    <<isRunning, connected, scheduledReminders, detached, checkInterval, intervals,
      midnightTasks, midnightDue, startsInInit, loads, sweeps>>

\* C15: a start() call on a running engine creates no sweep interval and no
\* midnight task, loads and clears nothing, and leaves isRunning true.
C15_StartOnRunningIsIdle ==
    [][isRunning /\ startCalls' = startCalls + 1 => UNCHANGED EngineState]_vars

\* start() has been called twice, the second time on the running engine
C15_Witness ==
    /\ isRunning /\ startCalls = 2
    /\ midnightTasks = 1 /\ DOMAIN intervals = {checkInterval}

\* C16: a stop() call on an engine that is not running changes nothing.
C16_StopOnIdleIsIdle ==
    [][~isRunning /\ (Stop \/ StopIdle) => UNCHANGED EngineState]_vars

\* the engine is not running, yet there is a registry a stop() would clear
C16_Witness ==
    /\ ~isRunning /\ startCalls > 0 /\ connected
    /\ DOMAIN scheduledReminders # {}
    /\ ENABLED StopIdle

\* C17: stop() on a running engine leaves isRunning false, the registry
\* empty, no sweep interval, and no reminder timer alive.
C17_StopCancelsEverything ==
    [][Stop =>
         /\ ~isRunning'
         /\ DOMAIN scheduledReminders' = {}
         /\ checkInterval' = 0 /\ DOMAIN intervals' = {}
         /\ \A obj \in BagToSet(detached') : obj.task # "live"
      ]_vars

\* ReminderChatBot.start() has come to its end after a failed check
CheckFailed == bot.error \in {"config", "file"} /\ bot.pc \in {"rejected", "exited"}

\* C18: the scheduler is started only after the configuration and the
\* timetable file have passed their checks; after a failed check start() has
\* rejected, the scheduler was never started and the bot is not running.
C18_FailedCheckRejects ==
    /\ startCalls > 0 => validateConfig(bot.setup) /\ validateTimetableFile(bot.setup)
    /\ CheckFailed => bot.pc = "rejected" /\ startCalls = 0 /\ ~isRunning /\ ~bot.isRunning

\* C19: a testReminder(entry) call hands one message to the transport, and
\* neither the call nor the return of the transport changes the registry or
\* a timer: no record is added, no sent flag set, no task created or stopped.
C19_TestReminderLeavesRegistry ==
    [][/\ \A i \in 1..Len(Timetable) :
            TestReminderCall(i) =>
              /\ BagCardinality(tests') = BagCardinality(tests) + 1
              /\ CopiesIn(getTodaySchedule(now)[i], tests')
                   = CopiesIn(getTodaySchedule(now)[i], tests) + 1
              /\ UNCHANGED <<scheduledReminders, detached>>
       /\ \A entry \in BagToSet(tests), res \in {"success", "failure", "throw"} :
            TestReminderReturn(entry, res) =>
              /\ BagCardinality(tests') = BagCardinality(tests) - 1
              /\ UNCHANGED <<scheduledReminders, detached>>
      ]_vars

\* a test reminder is on its way for an entry whose reminder is scheduled,
\* not sent, with a live timer
C19_Witness ==
    \E entry \in BagToSet(tests) :
        /\ connected
        /\ Has(scheduledReminders, generateReminderId(entry))
        /\ scheduledReminders[generateReminderId(entry)].task = "live"
        /\ ~scheduledReminders[generateReminderId(entry)].sent

\* C20: on a day without rollover, no step of a load, a timer or a sweep
\* takes the sent mark of a fingerprint away: a fingerprint with a sent = TRUE
\* record has one after the step.
C20_SentStaysSent ==
    [][~Stop =>
         \A rid \in Fingerprints :
            MarkedSentIn(scheduledReminders, rid) => MarkedSentIn(scheduledReminders', rid)
      ]_vars

\* a description with all whitespace removed, in lower case
Normalized(d) == toLowerCase(stripSpaces(d))

\* the first n characters of a description
FirstChars(d, n) == SubSeq(d, 1, IF Len(d) < n THEN Len(d) ELSE n)

\* C21: two entries with the same label whose descriptions are equal after
\* removing all whitespace and lowercasing have the same fingerprint.
C21_IdIgnoresWhitespaceAndCase ==
    /\ pair.ids # <<>>
    /\ pair.a.timeSlot = pair.b.timeSlot
    /\ Normalized(pair.a.activity) = Normalized(pair.b.activity)
    => pair.ids[1] = pair.ids[2]

\* C22 as stated: equal entries have equal fingerprints, entries with the
\* same label and the same first 20 description characters have equal
\* fingerprints, and any two entries whose normalized description prefixes
\* differ have different fingerprints.
C22_PrefixesDecideIds ==
    pair.ids # <<>> =>
      /\ pair.a = pair.b => pair.ids[1] = pair.ids[2]
      /\ pair.a.timeSlot = pair.b.timeSlot
            /\ FirstChars(pair.a.activity, PrefixLen) = FirstChars(pair.b.activity, PrefixLen)
         => pair.ids[1] = pair.ids[2]
      /\ Normalized(FirstChars(pair.a.activity, PrefixLen))
            # Normalized(FirstChars(pair.b.activity, PrefixLen))
         => pair.ids[1] # pair.ids[2]

\* C22, amended: equal entries have equal fingerprints, entries with the same
\* label and the same first 20 description characters have equal
\* fingerprints, and two entries with the same label whose normalized
\* description prefixes differ have different fingerprints.
C22_PrefixesDecideIdsOfLabel ==
    pair.ids # <<>> =>
      /\ pair.a = pair.b => pair.ids[1] = pair.ids[2]
      /\ pair.a.timeSlot = pair.b.timeSlot
            /\ FirstChars(pair.a.activity, PrefixLen) = FirstChars(pair.b.activity, PrefixLen)
         => pair.ids[1] = pair.ids[2]
      /\ pair.a.timeSlot = pair.b.timeSlot
            /\ Normalized(FirstChars(pair.a.activity, PrefixLen))
                 # Normalized(FirstChars(pair.b.activity, PrefixLen))
         => pair.ids[1] # pair.ids[2]

\* two entries with one label, whose descriptions differ only after the
\* first 20 characters, have got one fingerprint
C22_Witness ==
    /\ pair.ids # <<>>
    /\ pair.a.timeSlot = pair.b.timeSlot
    /\ pair.a.activity # pair.b.activity
    /\ Len(pair.a.activity) > PrefixLen
    /\ FirstChars(pair.a.activity, PrefixLen) = FirstChars(pair.b.activity, PrefixLen)
    /\ pair.ids[1] = pair.ids[2]

Timers ==
    {scheduledReminders[rid] : rid \in {k \in DOMAIN scheduledReminders :
                                           scheduledReminders[k].task # "none"}}
      \cup {obj \in BagToSet(detached) : obj.task # "none"}

\* C24: the timer of a reminder invokes the transport at most once, and when
\* the transport call of its activation returns success or failure the timer
\* is stopped and nothing of it is pending.
C24_TimerSendsOnce ==
    /\ [](\A obj \in Timers : obj.calls <= 1)
    /\ [][\A rid \in Fingerprints, res \in {"success", "failure"} :
            TimerSendReturn(rid, res) =>
              /\ scheduledReminders'[rid].task = "stopped"
              /\ ~scheduledReminders'[rid].due /\ ~scheduledReminders'[rid].sending
              /\ scheduledReminders'[rid].calls = 1]_vars
    /\ [][\A obj \in BagToSet(detached), res \in {"success", "failure"} :
            TimerSendReturnDetached(obj, res) =>
              \A new \in BagToSet(detached') :
                 new.id = obj.id /\ CopiesIn(new, detached') > CopiesIn(new, detached)
                 => new.task = "stopped" /\ ~new.due /\ ~new.sending]_vars

\* one timer has sent with success and another with failure; both are
\* stopped after their one call
C24_Witness ==
    \E r1, r2 \in DOMAIN scheduledReminders :
        /\ r1 # r2 /\ isRunning
        /\ scheduledReminders[r1].task = "stopped" /\ scheduledReminders[r1].calls = 1
        /\ scheduledReminders[r1].sent /\ ~scheduledReminders[r1].sending
        /\ scheduledReminders[r2].task = "stopped" /\ scheduledReminders[r2].calls = 1
        /\ ~scheduledReminders[r2].sent /\ ~scheduledReminders[r2].sending

\* C25: an entry of today that starts after now while the engine runs gets
\* a successful send on that day, when the engine keeps running, the Entry
\* Source answers and the transport succeeds.
C25_EveryFutureEntryIsSent ==
    \A i \in 1..Len(Timetable) :
        (isRunning /\ TodayEntry(i, now).startTime > now)
          ~> (successes[Day(now)][generateReminderId(Timetable[i])] > 0)

\* the place of an entry in the Entry Source
RowIndex(entry) ==
    CHOOSE i \in 1..Len(Timetable) :
        Timetable[i].timeSlot = entry.timeSlot /\ Timetable[i].activity = entry.activity

\* the objects with a cron task that is due now and was registered for an
\* earlier row with the same fire instant as obj
DueBefore(obj) ==
    {o \in Timers : /\ Activates(o) /\ ~o.sent
                     /\ o.reminderTime = obj.reminderTime
                     /\ RowIndex(o.entry) < RowIndex(obj.entry)}

\* timers with one fire instant call the transport in Entry Source order
C26_TimersInSourceOrder ==
    [][/\ \A rid \in Fingerprints :
            TimerFire(rid) /\ ~scheduledReminders[rid].sent
              => DueBefore(scheduledReminders[rid]) = {}
       /\ \A obj \in BagToSet(detached) :
            TimerFireDetached(obj) /\ ~obj.sent => DueBefore(obj) = {}]_vars

\* a tick sends for the entries of its window in Entry Source order, one
\* call at a time
C26_SweepInSourceOrder ==
    [][\A tick \in BagToSet(sweeps), res \in {"success", "failure", "throw"} :
         SweepSendReturn(tick, res) =>
           \A next \in BagToSet(sweeps') :
              CopiesIn(next, sweeps') > CopiesIn(next, sweeps) /\ next.pc = "send"
              => RowIndex(next.cur) > RowIndex(tick.cur)]_vars

\* C26: reminders with identical fire instants invoke the transport in the
\* order of the Entry Source, in which they were registered, and a sweep
\* tick sends for its due entries in that order, each call begun after the
\* one before has returned.
C26_SendsFollowSourceOrder == C26_TimersInSourceOrder /\ C26_SweepInSourceOrder


\* a timer whose transport call threw: the call is counted, nothing is marked
\* and the task is left running (the catch of lines 997-999)
Threw(obj) == obj.calls > 0 /\ ~obj.sending /\ ~obj.sent /\ obj.task = "live"

\* a call on a transport that is not connected throws and nothing is recorded
C27_NotConnectedThrows ==
    [][~connected =>
         /\ \A res \in {"success", "failure", "throw"} :
              /\ \A rid \in Fingerprints :
                    TimerSendReturn(rid, res) =>
                        /\ res = "throw"
                        /\ ~scheduledReminders'[rid].sent
                        /\ UNCHANGED successes
              /\ \A obj \in BagToSet(detached) :
                    TimerSendReturnDetached(obj, res) =>
                        /\ res = "throw"
                        /\ \A o \in BagToSet(detached') : o.sent => BagIn(o, detached)
                        /\ UNCHANGED successes
              /\ \A tick \in BagToSet(sweeps) :
                    SweepSendReturn(tick, res) =>
                        /\ res = "throw"
                        /\ UNCHANGED <<successes, detached>>
                        /\ \A rid \in Fingerprints :
                              /\ Has(scheduledReminders', rid) <=> Has(scheduledReminders, rid)
                              /\ Has(scheduledReminders, rid) =>
                                    scheduledReminders'[rid].sent = scheduledReminders[rid].sent
              /\ \A entry \in BagToSet(tests) :
                    TestReminderReturn(entry, res) =>
                        /\ res = "throw"
                        /\ UNCHANGED <<successes, scheduledReminders, detached>>]_vars

\* start() has the transport connected when it creates its midnight trigger,
\* when it begins its load, and when it registers its timers and its interval
C27_StartInitializesFirst ==
    [][/\ (startCalls' > startCalls /\ ~connected) =>
             UNCHANGED <<midnightTasks, loads, scheduledReminders, detached, intervals,
                         checkInterval, isRunning>>
       /\ midnightTasks' > midnightTasks => connected'
       /\ loads'.start > loads.start => connected'
       /\ loads'.start < loads.start => connected /\ connected'
       /\ (isRunning' /\ ~isRunning) => connected /\ connected'
       /\ (checkInterval' # checkInterval /\ checkInterval' # 0) => connected /\ connected']_vars

\* C27: Sending through a transport that is not initialized (never
\* initialized, or disconnected) fails with an error and records no message;
\* start() initializes a transport that is not connected before it creates
\* the midnight trigger, the timers and the sweep interval that invoke it.
C27_UninitializedTransportThrows == C27_NotConnectedThrows /\ C27_StartInitializesFirst

\* a timer's call threw on the disconnected transport, nothing was recorded
\* for its fingerprint, and the second start() has then initialized the
\* transport and is running with a timer registered
C27_Witness ==
    /\ startCalls = 2 /\ isRunning /\ connected
    /\ \E obj \in BagToSet(detached) :
          /\ Threw(obj)
          /\ \A d \in Days : successes[d][obj.id] = 0
    /\ \E rid \in Fingerprints :
          Has(scheduledReminders, rid) /\ scheduledReminders[rid].task = "live"


C29_LiveTimersAreRegistered ==
    \A obj \in BagToSet(detached) : obj.task # "live"


\* both start() calls have been made and neither is still in progress
BothStartsDone == startCalls = 2 /\ startsInInit = 0 /\ loads.start = 0

\* C30: Two start() calls that overlap leave the engine with exactly one
\* active sweep interval and one midnight trigger, and a later stop() cancels
\* every sweep interval that was created.
C30_OverlappingStartsLeaveOne ==
    /\ (BothStartsDone /\ isRunning) =>
           Cardinality(DOMAIN intervals) = 1 /\ midnightTasks = 1
    /\ (BothStartsDone /\ ~isRunning) => DOMAIN intervals = {}


\* the registry without the count of transport calls the model keeps
Plain(map) == [k \in DOMAIN map |-> [map[k] EXCEPT !.calls = 0]]

\* the entries a tick that began in minute tickNow has to send for: in the
\* look-ahead window, due, and without a record under their fingerprint
Awaited(tickNow) ==
    SelectSeq(getUpcomingEntries(MinutesBefore, now),
              LAMBDA e : /\ Minute(e.startTime - Lead) <= tickNow
                         /\ ~Has(scheduledReminders, generateReminderId(e)))

\* a sweep send stores a sent record without a timer exactly on success
C31_RecordIffSuccess ==
    [][\A tick \in BagToSet(sweeps), res \in {"success", "failure", "throw"} :
          SweepSendReturn(tick, res) =>
              LET rid == generateReminderId(tick.cur)
              IN  IF res = "success"
                  THEN /\ Has(scheduledReminders', rid)
                       /\ scheduledReminders'[rid].sent
                       /\ scheduledReminders'[rid].task = "none"
                       /\ scheduledReminders'[rid].entry = tick.cur
                  ELSE /\ Plain(scheduledReminders') = Plain(scheduledReminders)
                       /\ detached' = detached
                       /\ successes' = successes]_vars

\* a tick whose Entry Source answers sends for every awaited entry: it calls
\* the transport for the first and keeps the others in its queue
C31_TickAttemptsAwaited ==
    [][\A tick \in BagToSet(sweeps) :
          (SweepFetched(tick, TRUE) /\ Awaited(tick.now) # <<>>) =>
              \E next \in BagToSet(sweeps') :
                  /\ next.pc = "send" /\ next.now = tick.now
                  /\ next.cur = Head(Awaited(tick.now))
                  /\ \A i \in 2..Len(Awaited(tick.now)) :
                        \E j \in 1..Len(next.queue) : next.queue[j] = Awaited(tick.now)[i]]_vars

C32_FailedLoadKeepsRegistry ==
    [][/\ RolloverLoaded(FALSE) =>
             UNCHANGED <<scheduledReminders, detached, isRunning, checkInterval,
                         intervals, midnightTasks, rolledOn>>
       /\ StartLoaded(FALSE) =>
             /\ UNCHANGED <<scheduledReminders, detached, midnightTasks>>
             /\ isRunning'
             /\ \A h \in DOMAIN intervals : h \in DOMAIN intervals' /\ intervals'[h] = intervals[h]]_vars

\* midnight has passed and the load of the midnight task has failed (no
\* rollover has gone through): the engine is running, its interval is live
\* and the registry still holds the record of the day before
C32_Witness ==
    /\ Day(now) = 1 /\ rolledOn # 1 /\ isRunning
    /\ midnightTasks > 0 /\ midnightDue = 0 /\ loads.rollover = 0
    /\ checkInterval \in DOMAIN intervals
    /\ \E rid \in Fingerprints :
          /\ Has(scheduledReminders, rid)
          /\ Day(scheduledReminders[rid].reminderTime) = 0


\* C33: An Entry Source failure during a sweep tick is contained in that
\* tick: it does not escape the tick callback as an unhandled error, and the
\* process goes on, so that later sweep ticks still run.
C33_SourceFailureContained == ~(bot.pc = "exited" /\ bot.error = "unhandledRejection")


\* C34: Whenever ReminderChatBot.start() has rejected, nothing is left
\* running: the scheduler is stopped, no timer and no sweep interval is live,
\* and getStatus().isRunning is false.
C34_RejectedStartLeavesNothing ==
    bot.pc = "rejected" =>
        /\ ~bot.isRunning
        /\ ~isRunning
        /\ DOMAIN intervals = {}
        /\ \A rid \in DOMAIN scheduledReminders : scheduledReminders[rid].task # "live"
        /\ \A obj \in BagToSet(detached) : obj.task # "live"


\* the scheduler is stopped when the transport is disconnected
C35_SchedulerStopsFirst == [][(connected /\ ~connected') => (~isRunning /\ ~isRunning')]_vars

\* a stop() that has returned has left the scheduler stopped and the bot not
\* running
C35_StopEndsStopped ==
    bot.pc \in {"stopped", "stopFailed"} => (~isRunning /\ ~bot.isRunning)

\* C35: ReminderChatBot.stop() on a running bot stops the scheduler before it
\* disconnects the transport, and always ends with the scheduler stopped and
\* isRunning false, also when the stop of the keep-alive service or of the
\* dashboard fails.
C35_StopAlwaysStops == C35_SchedulerStopsFirst /\ []C35_StopEndsStopped


\* C36: A registered reminder's timer activates at the reminder's fire
\* instant (entry start minus lead minutes) and at no other instant,
\* whatever the offset between the host's zone and the zone of the timer:
\* a timer that is due is due at the fire instant of its reminder.
C36_TimerFiresAtFireInstant ==
    /\ \A rid \in DOMAIN scheduledReminders :
          Activates(scheduledReminders[rid]) => now = scheduledReminders[rid].reminderTime
    /\ \A obj \in BagToSet(detached) : Activates(obj) => now = obj.reminderTime

====
